---------------------------- MODULE Spec2Model ----------------------------
(***************************************************************************)
(* A model of the LIDAR terrain generator: the region model of core.rs,    *)
(* the concurrent fetch phase of requester.rs (get_laz_data) and the       *)
(* compute phase of computer.rs (compute_textures_parallel).               *)
(*                                                                         *)
(* Spec         is the fetch phase: get_laz_data on a configuration.       *)
(* SpecFair     is the fetch phase under the fairness of its threads.      *)
(* SpecCompute  is the compute phase: compute_textures_parallel on a data  *)
(*              vector drawn from bounded sets.                            *)
(* SpecPipeline is the fetch phase followed by the compute phase.          *)
(* SpecRegion   is filter_points, one next() of its iterator chain a step. *)
(* SpecName     is the name of an image file, built and read back.         *)
(* SpecTexture  is the pixel loop of create_texture.                       *)
(***************************************************************************)
EXTENDS Integers, Sequences, FiniteSets, TLC

VARIABLES
    \* ---- fetch phase (requester.rs) ----
    config,             \* the Config handed to get_laz_data
    cpus,               \* NonZero<usize>: the number of workers / threads
    points,             \* filter_points(&config), the shared tile list
    coordinate_origin,  \* points.first()
    shared_blocks,      \* possible_blocks, deduplicated
    mpc,                \* where the thread running get_laz_data is
    spawned,            \* how many workers the spawn loop has started
    wpc,                \* per worker: "run", "done" or "panicked"
    access_index,       \* per worker: index into shared_points (0-based)
    block_pos,          \* per worker: position of the for loop in shared_blocks
    channel,            \* messages sent and not yet received
    laz_readers,        \* the vector get_laz_data returns
    requests,           \* history: per (tile index, variant position) the requests issued
    sent,               \* history: every message handed to tx.send, in order
    \* ---- compute phase (computer.rs) ----
    data,               \* the Vec<LazData> handed to compute_textures_parallel
    cpc,                \* where the thread running compute_textures_parallel is
    heights,            \* (min_height, max_height) of get_height_bounds
    tspawned,           \* how many chunk threads the scope has spawned
    tpc,                \* per chunk thread: "run", "ok", "err" or "panicked"
    tpos,               \* per chunk thread: tiles of its chunk already handled
    joined,             \* how many handles the join loop has joined
    textures,           \* history: per tile index the outcome of create_texture
    files,              \* the image files written to the destination folder
    config_json,        \* how many times config.json was written
    synth,              \* history: per tile index the thread and the bounds of its create_texture call
    bounds_calls,       \* history: how many times get_height_bounds was called
    \* ---- filter_points as the lazy iterator chain it is (requester.rs, core.rs) ----
    fp_pc,              \* "idle", "run" or "done"
    fp_area,            \* position in config.core_points of the area being expanded
    fp_iter,            \* the CorePointIterator of that area
    fp_out,             \* the Vec collected so far
    fp_count,           \* history: how many points the current iterator has yielded
    fp_last,            \* history: the point the current iterator yielded last
    \* ---- the name of an image file (computer.rs) ----
    nm_offset,          \* the offset_from_center a name is built from
    nm_name,            \* the file name built from it
    nm_parsed,          \* the offset read back from the name
    \* ---- create_texture, pixel by pixel (computer.rs) ----
    tx_input,           \* the tile, the resolution, the sample size and the global bounds
    tx_pc,              \* "idle", "start", "loop", "filled" or "panicked"
    tx_index,           \* linear_index of the for loop over the buffer
    tx_buffer,          \* buffer_f32 before the blur, as exact fractions
    tx_geo              \* history: per pixel the world position it was sampled at

fetchVars == <<config, cpus, points, coordinate_origin, shared_blocks, mpc, spawned,
               wpc, access_index, block_pos, channel, laz_readers, requests, sent>>

computeVars == <<data, cpc, heights, tspawned, tpc, tpos, joined, textures, files,
                 config_json, synth, bounds_calls>>

regionVars == <<fp_pc, fp_area, fp_iter, fp_out, fp_count, fp_last>>

nameVars == <<nm_offset, nm_name, nm_parsed>>

textureVars == <<tx_input, tx_pc, tx_index, tx_buffer, tx_geo>>

auxVars == <<regionVars, nameVars, textureVars>>

vars == <<fetchVars, computeVars, auxVars>>

-----------------------------------------------------------------------------
(* Bounds of the model and constants of the program.                       *)

MaxCpus == 2

MaxData == 3

MaxRequests == 8

MIN_POINT_DIM == 0

MAX_POINT_DIM == 800

U8_MAX == 255

\* Stands for f64::MAX, the start value of get_height_bounds; f64::MIN is its
\* negation. Every height of the model lies strictly between the two.
F64_MAX == 1000

-----------------------------------------------------------------------------
(* core.rs: the region model.                                              *)

\* The largest i16, the type of a coordinate and of start_position.
I16_MAX == 32767

\* A result of i16 arithmetic: the low 16 bits, signed.
I16(n) == ((n + I16_MAX + 1) % (2 * (I16_MAX + 1))) - I16_MAX - 1

\* The side computed with wrapping instead of checked u8 arithmetic.
get_all_points_in_area_Wrapping(core_point) ==
    [start_position |-> <<I16(core_point.center[1] - core_point.radius),
                          I16(core_point.center[2] - core_point.radius)>>,
     current_position_index |-> <<0, 0>>,
     side_dimension |-> (2 * core_point.radius + 1) % (U8_MAX + 1)]

\* CorePoint::get_all_points_in_area: the iterator over the square around the
\* centre. The side is 2 * radius + 1 computed with checked u8 arithmetic and
\* replaced by 255 when either step overflows.
get_all_points_in_area(core_point) ==
    LET r == core_point.radius
        side_dimension == IF 2 * r > U8_MAX \/ 2 * r + 1 > U8_MAX THEN U8_MAX ELSE 2 * r + 1
    IN  [start_position |-> <<I16(core_point.center[1] - r), I16(core_point.center[2] - r)>>,
         current_position_index |-> <<0, 0>>,
         side_dimension |-> side_dimension]

\* CorePointIterator::next: None once either index has reached the side,
\* otherwise the current point, the column index advancing and wrapping into
\* the next row. The u8 increments are kept at their width.
CorePointIterator_next(it) ==
    IF it.current_position_index[1] >= it.side_dimension
       \/ it.current_position_index[2] >= it.side_dimension
    THEN [some |-> FALSE, item |-> <<0, 0>>, iter |-> it]
    ELSE LET current_point == <<I16(it.start_position[1] + it.current_position_index[1]),
                                I16(it.start_position[2] + it.current_position_index[2])>>
             col == (it.current_position_index[1] + 1) % (U8_MAX + 1)
             idx == IF col % it.side_dimension = 0
                    THEN <<0, (it.current_position_index[2] + 1) % (U8_MAX + 1)>>
                    ELSE <<col, it.current_position_index[2]>>
         IN  [some |-> TRUE, item |-> current_point,
              iter |-> [it EXCEPT !.current_position_index = idx]]

RECURSIVE Collect(_)
\* Iterator::collect on a CorePointIterator: next() until it returns None.
Collect(it) ==
    LET n == CorePointIterator_next(it)
    IN  IF n.some THEN <<n.item>> \o Collect(n.iter) ELSE <<>>

RECURSIVE FlatMapAreas(_)
\* flat_map over config.core_points, in configuration order.
FlatMapAreas(core_points) ==
    IF core_points = <<>> THEN <<>>
    ELSE Collect(get_all_points_in_area(Head(core_points))) \o FlatMapAreas(Tail(core_points))

\* The range predicate with the upper limit taken as a valid coordinate.
InRange_Inclusive(point) ==
    /\ point[1] >= MIN_POINT_DIM
    /\ point[2] >= MIN_POINT_DIM
    /\ point[1] <= MAX_POINT_DIM
    /\ point[2] <= MAX_POINT_DIM

\* The range predicate of filter_points.
InRange(point) ==
    /\ point[1] >= MIN_POINT_DIM
    /\ point[2] >= MIN_POINT_DIM
    /\ point[1] < MAX_POINT_DIM
    /\ point[2] < MAX_POINT_DIM

\* No deduplication: every element is kept.
Unique_NoDedup(s) == s

RECURSIVE Unique(_)
\* itertools unique(): keeps the first occurrence of every element, in order.
Unique(s) ==
    IF s = <<>> THEN <<>>
    ELSE LET front == Unique(SubSeq(s, 1, Len(s) - 1))
             last == s[Len(s)]
         IN  IF \E k \in 1..Len(front) : front[k] = last THEN front ELSE Append(front, last)

\* filter_points: all points of all areas, range-filtered, deduplicated.
filter_points(cfg) ==
    Unique(SelectSeq(FlatMapAreas(cfg.core_points), InRange))

-----------------------------------------------------------------------------
(* The configurations the fetch phase is run on.                            *)

CorePoint(x, y, r) == [center |-> <<x, y>>, radius |-> r]

\* One tile; three tiles, the first area cut by the lower range limit; two
\* tiles with a repeated area and an origin that gives negative offsets; four
\* tiles of an area cut by the upper range limit; two areas that lie wholly
\* outside the valid range, one of them on the upper limit itself; no area.
CorePointLists ==
    { <<>>,
      <<CorePoint(0, 0, 0)>>,
      <<CorePoint(-1, 0, 1), CorePoint(1, 0, 0)>>,
      <<CorePoint(1, 1, 0), CorePoint(0, 0, 0), CorePoint(1, 1, 0)>>,
      <<CorePoint(799, 799, 1)>>,
      <<CorePoint(-5, -5, 0)>>,
      <<CorePoint(800, 800, 0)>> }

\* possible_blocks as given on the command line (at least one, repeats allowed).
BlockLists == { <<11, 12>>, <<11, 12, 11, 13>> }

\* The configurations that cannot issue more than MaxRequests requests.
Configs ==
    {c \in [core_points : CorePointLists, possible_blocks : BlockLists] :
        Len(filter_points(c)) * Len(Unique(c.possible_blocks)) <= MaxRequests}

\* filter_points tabulated over the configurations: the list the call at the
\* head of get_laz_data returns for each of them.
filtered_points == {<<c, filter_points(c)>> : c \in Configs}

\* The entry of that table for one configuration.
FilteredPointsOf(c) == (CHOOSE p \in filtered_points : p[1] = c)[2]

Workers == 0..(cpus - 1)

HttpFailures == {"send_error", "bad_status", "body_error"}

None == <<>>

RegionIdle ==
    /\ fp_pc = "idle"
    /\ fp_area = 0
    /\ fp_iter = None
    /\ fp_out = <<>>
    /\ fp_count = 0
    /\ fp_last = None

NameIdle ==
    /\ nm_offset = None
    /\ nm_name = None
    /\ nm_parsed = None

TextureIdle ==
    /\ tx_input = None
    /\ tx_pc = "idle"
    /\ tx_index = 0
    /\ tx_buffer = <<>>
    /\ tx_geo = <<>>

-----------------------------------------------------------------------------
(* requester.rs: get_laz_data, the fetch phase.                            *)

\* The payload behind one URL: the block and the tile the URL names stand for
\* the header bounds and the point records the server returns for it.
Payload(block_number, point) == [block |-> block_number, tile |-> point]

\* The offset taken from the first tile that was sent instead of the first of
\* the tile list.
offset_from_center_FirstSent(point) ==
    LET first == IF sent = <<>> THEN point ELSE sent[1].payload.tile
    IN  <<point[1] - first[1], point[2] - first[2]>>

\* offset_from_center of a tile (requester.rs lines 93-94).
offset_from_center(point) ==
    <<point[1] - coordinate_origin[1], point[2] - coordinate_origin[2]>>

\* A stride of one instead of the number of workers.
AdvanceIndex_ByOne(i) == i + 1

\* access_index += cpus.get()
AdvanceIndex(i) == i + cpus

\* The senders when get_laz_data keeps its own tx: drop(tx) left out.
LiveSenders_TxKept ==
    1 + Cardinality({w \in Workers : wpc[w] = "run"})

\* The senders still alive: the tx of get_laz_data until drop(tx), and the clone
\* each running worker owns (dropped when its closure ends or unwinds).
LiveSenders ==
    (IF mpc = "spawn" THEN 1 ELSE 0) + Cardinality({w \in Workers : wpc[w] = "run"})

\* A receiver that stops at the first moment the channel is empty.
Disconnected_NotAwaited == mpc = "recv"

\* The receiver's iterator ends when the channel is empty and disconnected.
Disconnected == LiveSenders = 0

\* The history of one request: who issued it and how it ended.
Request(w, outcome) == [worker |-> w, outcome |-> outcome]

Record(w, outcome) ==
    requests' = [requests EXCEPT ![<<access_index[w], block_pos[w]>>] =
                    Append(@, Request(w, outcome))]

\* The worker leaves the for loop over the blocks and moves to its next tile.
NextTile(w) ==
    /\ access_index' = [access_index EXCEPT ![w] = AdvanceIndex(@)]
    /\ block_pos' = [block_pos EXCEPT ![w] = 1]

\* A `break` where the code has `continue`: the remaining blocks are skipped.
Continue_Break(w) == NextTile(w)

\* `continue`: the for loop goes to the next block, and ends when none is left.
Continue(w) ==
    IF block_pos[w] < Len(shared_blocks)
    THEN /\ block_pos' = [block_pos EXCEPT ![w] = @ + 1]
         /\ UNCHANGED access_index
    ELSE NextTile(w)

\* No `break` after the send: the for loop goes on with the next block.
Break_Missing(w) == Continue(w)

\* `break` after a result was sent: the remaining blocks are not tried.
Break(w) == NextTile(w)

FetchInit ==
    /\ config \in Configs
    /\ cpus \in 1..MaxCpus
    /\ points = <<>>
    /\ coordinate_origin = None
    /\ shared_blocks = <<>>
    /\ mpc = "start"
    /\ spawned = 0
    /\ wpc = [w \in Workers |-> "unborn"]
    /\ access_index = [w \in Workers |-> w]
    /\ block_pos = [w \in Workers |-> 1]
    /\ channel = <<>>
    /\ laz_readers = <<>>
    /\ requests = <<>>
    /\ sent = <<>>

ComputeIdle ==
    /\ data = <<>>
    /\ cpc = "idle"
    /\ heights = None
    /\ tspawned = 0
    /\ tpc = <<>>
    /\ tpos = <<>>
    /\ joined = 0
    /\ textures = <<>>
    /\ files = {}
    /\ config_json = 0
    /\ synth = <<>>
    /\ bounds_calls = 0

\* get_laz_data up to the creation of the channel: the tile list, the origin
\* (a panic when the list is empty), the deduplicated blocks.
Begin ==
    /\ mpc = "start"
    /\ LET pts == FilteredPointsOf(config)
       IN  /\ points' = pts
           /\ IF pts = <<>>
              THEN /\ mpc' = "panicked"
                   /\ UNCHANGED <<coordinate_origin, shared_blocks, requests>>
              ELSE /\ coordinate_origin' = pts[1]
                   /\ shared_blocks' = Unique(config.possible_blocks)
                   /\ requests' = [k \in (0..(Len(pts) - 1)) \X (1..Len(Unique(config.possible_blocks)))
                                     |-> <<>>]
                   /\ mpc' = "spawn"
    /\ UNCHANGED <<config, cpus, spawned, wpc, access_index, block_pos, channel,
                   laz_readers, sent>>
    /\ UNCHANGED <<computeVars, auxVars>>

\* One turn of `for id in 0..cpus.get()`: clone tx, spawn the worker.
SpawnWorker ==
    /\ mpc = "spawn"
    /\ spawned < cpus
    /\ wpc' = [wpc EXCEPT ![spawned] = "run"]
    /\ access_index' = [access_index EXCEPT ![spawned] = spawned]
    /\ spawned' = spawned + 1
    /\ UNCHANGED <<config, cpus, points, coordinate_origin, shared_blocks, mpc, block_pos,
                   channel, laz_readers, requests, sent>>
    /\ UNCHANGED <<computeVars, auxVars>>

\* drop(tx) after the spawn loop.
DropTx ==
    /\ mpc = "spawn"
    /\ spawned = cpus
    /\ mpc' = "recv"
    /\ UNCHANGED <<config, cpus, points, coordinate_origin, shared_blocks, spawned, wpc,
                   access_index, block_pos, channel, laz_readers, requests, sent>>
    /\ UNCHANGED <<computeVars, auxVars>>

\* if access_index >= shared_points.len() { break; }: the closure ends and its
\* tx is dropped.
WorkerLoopExit(w) ==
    /\ wpc[w] = "run"
    /\ access_index[w] >= Len(points)
    /\ wpc' = [wpc EXCEPT ![w] = "done"]
    /\ UNCHANGED <<config, cpus, points, coordinate_origin, shared_blocks, mpc, spawned,
                   access_index, block_pos, channel, laz_readers, requests, sent>>
    /\ UNCHANGED <<computeVars, auxVars>>

\* A request that fails at send, by its status or while reading the body: a
\* message is printed and the for loop continues. The three branches differ
\* only in what they print, so the history keeps one outcome for them.
HttpAttemptFails(w, kind) ==
    /\ wpc[w] = "run"
    /\ access_index[w] < Len(points)
    /\ kind \in HttpFailures
    /\ Record(w, "http_fail")
    /\ Continue(w)
    /\ UNCHANGED <<config, cpus, points, coordinate_origin, shared_blocks, mpc, spawned,
                   wpc, channel, laz_readers, sent>>
    /\ UNCHANGED <<computeVars, auxVars>>

\* A request that succeeds with a body the las reader rejects: Reader::new or
\* the collect of the points is unwrapped, the worker panics and its tx is
\* dropped while it unwinds.
ParseFails(w) ==
    /\ wpc[w] = "run"
    /\ access_index[w] < Len(points)
    /\ Record(w, "parse_fail")
    /\ wpc' = [wpc EXCEPT ![w] = "panicked"]
    /\ UNCHANGED <<config, cpus, points, coordinate_origin, shared_blocks, mpc, spawned,
                   access_index, block_pos, channel, laz_readers, sent>>
    /\ UNCHANGED <<computeVars, auxVars>>

\* A request that succeeds and parses: the result is sent, the worker sleeps
\* and breaks out of the for loop to its next tile.
SendResult(w) ==
    /\ wpc[w] = "run"
    /\ access_index[w] < Len(points)
    /\ Record(w, "ok")
    /\ LET point == points[access_index[w] + 1]
           msg == [offset_from_center |-> offset_from_center(point),
                   payload |-> Payload(shared_blocks[block_pos[w]], point)]
       IN  /\ channel' = Append(channel, msg)
           /\ sent' = Append(sent, msg)
    /\ Break(w)
    /\ UNCHANGED <<config, cpus, points, coordinate_origin, shared_blocks, mpc, spawned,
                   wpc, laz_readers>>
    /\ UNCHANGED <<computeVars, auxVars>>

\* One turn of `for received in rx`: the message becomes a LazData.
Receive ==
    /\ mpc = "recv"
    /\ channel # <<>>
    /\ laz_readers' = Append(laz_readers,
                             [offset_from_center |-> Head(channel).offset_from_center,
                              payload |-> Head(channel).payload])
    /\ channel' = Tail(channel)
    /\ UNCHANGED <<config, cpus, points, coordinate_origin, shared_blocks, mpc, spawned,
                   wpc, access_index, block_pos, requests, sent>>
    /\ UNCHANGED <<computeVars, auxVars>>

\* The receiver's iterator ends and get_laz_data returns laz_readers.
Return ==
    /\ mpc = "recv"
    /\ channel = <<>>
    /\ Disconnected
    /\ mpc' = "returned"
    /\ UNCHANGED <<config, cpus, points, coordinate_origin, shared_blocks, spawned, wpc,
                   access_index, block_pos, channel, laz_readers, requests, sent>>
    /\ UNCHANGED <<computeVars, auxVars>>

Init == FetchInit /\ ComputeIdle /\ RegionIdle /\ NameIdle /\ TextureIdle

Next ==
    \/ Begin
    \/ SpawnWorker
    \/ DropTx
    \/ \E w \in Workers : WorkerLoopExit(w)
    \/ \E w \in Workers : \E kind \in HttpFailures : HttpAttemptFails(w, kind)
    \/ \E w \in Workers : ParseFails(w)
    \/ \E w \in Workers : SendResult(w)
    \/ Receive
    \/ Return

Spec == Init /\ [][Next]_vars

\* The steps of the thread that runs get_laz_data.
MainStep ==
    \/ Begin
    \/ SpawnWorker
    \/ DropTx
    \/ Receive
    \/ Return

\* The steps of worker w: every attempt ends, within the 300 s timeout of the
\* request, in one of the three ways, or the loop is left.
WorkerStep(w) ==
    /\ w \in Workers
    /\ \/ WorkerLoopExit(w)
       \/ \E kind \in HttpFailures : HttpAttemptFails(w, kind)
       \/ ParseFails(w)
       \/ SendResult(w)

\* Every thread that can take a step is scheduled in the end.
SpecFair ==
    /\ Spec
    /\ WF_vars(MainStep)
    /\ \A w \in 0..(MaxCpus - 1) : WF_vars(WorkerStep(w))

-----------------------------------------------------------------------------
(* What the histories say, for the properties of the fetch phase.          *)

Tiles == 0..(Len(points) - 1)

Variants == 1..Len(shared_blocks)

Started == mpc \in {"spawn", "recv", "returned"}

Req(i, b) == requests[<<i, b>>]

Outcomes(i, b) == {Req(i, b)[k].outcome : k \in 1..Len(Req(i, b))}

\* Variant b of tile i was requested, and only with an HTTP failure.
Failed(i, b) == Outcomes(i, b) = {"http_fail"}

\* The positions in `sent` of the results for tile i.
SentFor(i) == {k \in 1..Len(sent) : sent[k].payload.tile = points[i + 1]}

\* The tile indices worker w has issued a request for.
ProcessedBy(w) ==
    {i \in Tiles : \E b \in Variants : \E k \in 1..Len(Req(i, b)) : Req(i, b)[k].worker = w}

\* The indices w, w + N, w + 2N, ... below the list length.
Stride(w) == {i \in Tiles : i % cpus = w}

Count(m, s) == Cardinality({k \in 1..Len(s) : s[k] = m})

Range(s) == {s[k] : k \in 1..Len(s)}

\* C1: for every tile the variants are requested in the order of the
\* deduplicated list, a variant only after every earlier one failed at HTTP
\* level, so nothing is requested after a variant that returned a payload; a
\* variant that returned a payload which parsed has sent exactly one result for
\* the tile, carrying that variant's payload, and a tile never has two results.
C1_FirstSuccessWins ==
    Started =>
        \A i \in Tiles :
            /\ \A b \in Variants :
                  Len(Req(i, b)) > 0 =>
                      \A b2 \in 1..(b - 1) : Failed(i, b2)
            /\ Cardinality(SentFor(i)) = Cardinality({b \in Variants : "ok" \in Outcomes(i, b)})
            /\ Cardinality(SentFor(i)) <= 1
            /\ \A k \in SentFor(i) :
                  \E b \in Variants : /\ "ok" \in Outcomes(i, b)
                                      /\ sent[k].payload.block = shared_blocks[b]

\* Variants [11, 12, 13]: 11 failed, 12 succeeded, the result arrived and 13 was
\* never requested although the worker has finished.
C1_Witness ==
    /\ mpc = "returned"
    /\ Len(shared_blocks) = 3
    /\ \E i \in Tiles :
          /\ Failed(i, 1)
          /\ Outcomes(i, 2) = {"ok"}
          /\ Req(i, 3) = <<>>
          /\ \E k \in 1..Len(laz_readers) :
                laz_readers[k].payload = Payload(shared_blocks[2], points[i + 1])

\* C2: an HTTP failure never ends a worker. A worker panics only on a parse
\* failure; for every tile of its stride it has left behind, a variant
\* returned a payload or every variant was requested and failed; on the tile it
\* is at, every earlier variant was requested and failed; and a worker that
\* left its loop has requested every tile of its stride.
C2_HttpFailureAbsorbed ==
    Started =>
        \A w \in Workers :
            /\ wpc[w] = "panicked" =>
                  \E i \in Tiles : \E b \in Variants :
                      Request(w, "parse_fail") \in Range(Req(i, b))
            /\ \A i \in Stride(w) :
                  i < access_index[w] =>
                      \/ \E b \in Variants : "ok" \in Outcomes(i, b)
                      \/ \A b \in Variants : Failed(i, b)
            /\ \A i \in Stride(w) :
                  (i = access_index[w] /\ wpc[w] = "run") =>
                      \A b \in 1..(block_pos[w] - 1) : Failed(i, b)
            /\ wpc[w] = "done" => \A i \in Stride(w) : Req(i, 1) # <<>>

\* A worker with two tiles in its stride: every variant of the first failed,
\* the second was still requested, and the worker left its loop normally.
C2_Witness ==
    /\ Started
    /\ \E w \in Workers :
          /\ wpc[w] = "done"
          /\ \E i, j \in Stride(w) :
                /\ i < j
                /\ \A b \in Variants : Failed(i, b)
                /\ Req(j, 1) # <<>>

\* C3: a parse failure is fatal only to its tile: when get_laz_data returns,
\* every tile of the list was requested, and every tile a variant of which
\* returned a payload that parsed is in the result.
C3_ParseFailureOnlyThatTile ==
    mpc = "returned" =>
        \A i \in Tiles :
            /\ Req(i, 1) # <<>>
            /\ (\E b \in Variants : "ok" \in Outcomes(i, b)) =>
                  \E k \in 1..Len(laz_readers) : laz_readers[k].payload.tile = points[i + 1]

\* C4: get_laz_data returns only when no sender is left and the channel is
\* empty, and then the returned vector holds every message that was sent
\* exactly as often as it was sent (once), and nothing else.
C4_DrainedExactlyOnce ==
    mpc = "returned" =>
        /\ \A w \in Workers : wpc[w] \in {"done", "panicked"}
        /\ channel = <<>>
        /\ Len(laz_readers) = Len(sent)
        /\ \A m \in Range(sent) \cup Range(laz_readers) :
              /\ Count(m, sent) = 1
              /\ Count(m, laz_readers) = 1

\* Two workers both sent results, and all of them were returned.
C4_Witness ==
    /\ mpc = "returned"
    /\ cpus = 2
    /\ Len(laz_readers) = 3
    /\ \A w \in Workers : \E i \in ProcessedBy(w) : SentFor(i) # {}

C6_OriginIsFirstAssembled ==
    \A k \in 1..Len(laz_readers) :
        laz_readers[k].offset_from_center =
            <<laz_readers[k].payload.tile[1] - laz_readers[1].payload.tile[1],
              laz_readers[k].payload.tile[2] - laz_readers[1].payload.tile[2]>>

\* C6 amended: the origin is the first coordinate of the filtered tile list,
\* whether or not that tile is ever fetched, and every message and every entry
\* of the result carries its offset from that coordinate.
C6_OriginIsFirstListed ==
    Started =>
        /\ coordinate_origin = filter_points(config)[1]
        /\ \A k \in 1..Len(sent) :
              sent[k].offset_from_center =
                  <<sent[k].payload.tile[1] - points[1][1],
                    sent[k].payload.tile[2] - points[1][2]>>
        /\ \A k \in 1..Len(laz_readers) :
              laz_readers[k].offset_from_center =
                  <<laz_readers[k].payload.tile[1] - points[1][1],
                    laz_readers[k].payload.tile[2] - points[1][2]>>

\* The first tile of the list was assembled after another one (or never), and
\* the result holds a tile with a negative offset.
C6_Witness ==
    /\ mpc = "returned"
    /\ Len(laz_readers) >= 1
    /\ laz_readers[1].payload.tile # points[1]
    /\ laz_readers[1].offset_from_center = <<-1, -1>>

\* The tiles a worker has issued a request for.
RequestedTiles == {points[k[1] + 1] : k \in {q \in DOMAIN requests : requests[q] # <<>>}}

\* C13: every request a worker issues, and every payload it sends on, is for
\* a coordinate (x, y) with min_dim <= x < max_dim and min_dim <= y < max_dim.
C13_OnlyInRangeFetched ==
    /\ \A p \in RequestedTiles :
          /\ MIN_POINT_DIM <= p[1] /\ p[1] < MAX_POINT_DIM
          /\ MIN_POINT_DIM <= p[2] /\ p[2] < MAX_POINT_DIM
    /\ \A k \in 1..Len(sent) :
          /\ sent[k].payload.tile[1] \in MIN_POINT_DIM..(MAX_POINT_DIM - 1)
          /\ sent[k].payload.tile[2] \in MIN_POINT_DIM..(MAX_POINT_DIM - 1)

\* The area around (799, 799) reaches 800 on both axes; its tiles up to 799
\* have all been requested.
C13_Witness ==
    /\ mpc = "returned"
    /\ config.core_points = <<CorePoint(MAX_POINT_DIM - 1, MAX_POINT_DIM - 1, 1)>>
    /\ RequestedTiles = ((MAX_POINT_DIM - 2)..(MAX_POINT_DIM - 1)) \X ((MAX_POINT_DIM - 2)..(MAX_POINT_DIM - 1))

\* The positions in the returned vector of the entries for tile i.
EntriesFor(i) == {k \in 1..Len(laz_readers) : laz_readers[k].payload.tile = points[i + 1]}

\* C17: a tile every variant of which failed at HTTP level does not stop its
\* worker, which goes on to its next tile; and when get_laz_data has returned,
\* its result holds exactly one entry for every tile a variant of which was
\* fetched and parsed, and no entry for any other tile.
C17_AbsentIffAllFailed ==
    Started =>
        \A i \in Tiles :
            /\ (\A b \in Variants : Failed(i, b)) =>
                  /\ access_index[i % cpus] > i
                  /\ SentFor(i) = {}
            /\ mpc = "returned" =>
                  IF \E b \in Variants : "ok" \in Outcomes(i, b)
                  THEN Cardinality(EntriesFor(i)) = 1
                  ELSE EntriesFor(i) = {}

\* get_laz_data has returned a non-empty result, no worker panicked, and
\* every variant of one tile of the list had failed.
C17_Witness ==
    /\ mpc = "returned"
    /\ \A w \in Workers : wpc[w] = "done"
    /\ laz_readers # <<>>
    /\ \E i \in Tiles :
          /\ \A b \in Variants : Failed(i, b)
          /\ EntriesFor(i) = {}
          /\ \E j \in Tiles : j > i /\ Cardinality(EntriesFor(j)) = 1

\* C24: every worker that runs ends in the end, normally or by a panic, and
\* get_laz_data returns in the end.
C24_FetchAlwaysReturns ==
    /\ \A w \in 0..(MaxCpus - 1) :
          (w \in Workers /\ wpc[w] = "run") ~> (w \in Workers /\ wpc[w] \in {"done", "panicked"})
    /\ <>(mpc = "returned")

\* C24 as amended: every worker that runs ends in the end, normally or by a
\* panic; get_laz_data panics at once when the tile list is empty, and else
\* returns in the end.
C24_FetchReturnsUnlessEmpty ==
    /\ \A w \in 0..(MaxCpus - 1) :
          (w \in Workers /\ wpc[w] = "run") ~> (w \in Workers /\ wpc[w] \in {"done", "panicked"})
    /\ (mpc = "start" /\ FilteredPointsOf(config) # <<>>) ~> (mpc = "returned")
    /\ (mpc = "start" /\ FilteredPointsOf(config) = <<>>) ~> (mpc = "panicked" /\ spawned = 0)

\* get_laz_data has returned although one of two workers panicked and the
\* other finished its stride.
C24_Witness ==
    /\ mpc = "returned"
    /\ cpus = 2
    /\ wpc[0] = "panicked"
    /\ wpc[1] = "done"
    /\ laz_readers # <<>>

\* The entry the receive loop builds for variant b of tile i: the offset from
\* the first coordinate of the filtered list, and the payload of that URL.
Entry(i, b) ==
    [offset_from_center |-> <<points[i + 1][1] - filter_points(config)[1][1],
                              points[i + 1][2] - filter_points(config)[1][2]>>,
     payload |-> Payload(shared_blocks[b], points[i + 1])]

\* Variant b of tile i answered with a payload that parsed.
Resolved(i, b) == "ok" \in Outcomes(i, b)

\* Variant b of tile i answered with a payload the reader rejected.
Rejected(i, b) == "parse_fail" \in Outcomes(i, b)

\* What the outcomes alone say must be requested: variant b of tile i is due
\* when every earlier variant of the tile failed at HTTP level and no earlier
\* tile of the same stride brought its worker down.
Due(i, b) ==
    /\ \A e \in 1..(b - 1) : Failed(i, e)
    /\ \A j \in Stride(i % cpus) : j < i => \A e \in Variants : ~Rejected(j, e)

\* C25: when get_laz_data returns, the requests that were made and the entries
\* that are returned are fixed by the configuration and by the outcome of each
\* (coordinate, variant) request alone: a pair was requested exactly when the
\* outcomes make it due, the entries are exactly one per pair that resolved,
\* each with the offset from the first coordinate of the filtered list, and so
\* two runs with the same outcomes can differ in the order of the entries only.
C25_EntriesFixedByOutcomes ==
    mpc = "returned" =>
        /\ coordinate_origin = filter_points(config)[1]
        /\ \A i \in Tiles : \A b \in Variants :
              /\ Len(Req(i, b)) <= 1
              /\ Req(i, b) # <<>> <=> Due(i, b)
        /\ Range(laz_readers) = {Entry(k[1], k[2]) : k \in {q \in Tiles \X Variants : Resolved(q[1], q[2])}}
        /\ Len(laz_readers) = Cardinality({q \in Tiles \X Variants : Resolved(q[1], q[2])})

\* Two workers, and the entries returned in the reverse of the list order: the
\* second tile's entry arrived before the first tile's, and each still carries
\* its offset from the first listed coordinate.
C25_Witness ==
    /\ mpc = "returned"
    /\ cpus = 2
    /\ Len(laz_readers) >= 2
    /\ laz_readers[1].payload.tile = points[2]
    /\ laz_readers[2].payload.tile = points[1]
    /\ laz_readers[1].offset_from_center # <<0, 0>>
    /\ laz_readers[2].offset_from_center = <<0, 0>>

\* The requests issued so far for the URL of coordinate p and block id v.
RequestsFor(p, v) ==
    {k \in DOMAIN requests :
        /\ requests[k] # <<>>
        /\ points[k[1] + 1] = p
        /\ shared_blocks[k[2]] = v}

\* C26: at every moment of the fetch phase each (coordinate, block id) pair has
\* been requested at most once: no position of the tile list and of the
\* variant list is requested twice, and no two positions that were requested
\* name the same coordinate and the same block id.
C26_PairRequestedAtMostOnce ==
    /\ \A k \in DOMAIN requests : Len(requests[k]) <= 1
    /\ \A p \in Range(points) : \A v \in Range(shared_blocks) :
          Cardinality(RequestsFor(p, v)) <= 1

\* Two workers on a configuration whose variant list repeats a block id and
\* whose areas overlap; get_laz_data has returned after every variant of every
\* tile was requested, each once.
C26_Witness ==
    /\ mpc = "returned"
    /\ cpus = 2
    /\ Len(config.possible_blocks) > Len(shared_blocks)
    /\ Len(FlatMapAreas(config.core_points)) > Len(points)
    /\ \A i \in Tiles : \A b \in Variants : Len(Req(i, b)) = 1

\* No coordinate of any configured area lies in the valid range; so it is when
\* no area is configured.
NoTileInRange ==
    \A p \in Range(FlatMapAreas(config.core_points)) :
        \/ p[1] < MIN_POINT_DIM
        \/ p[2] < MIN_POINT_DIM
        \/ p[1] >= MAX_POINT_DIM
        \/ p[2] >= MAX_POINT_DIM

\* C27: the filtered tile list is empty exactly when no configured coordinate
\* lies in the valid range, and then get_laz_data, once it has run, has
\* panicked with no sender alive, no worker spawned, no request issued and
\* nothing sent or received; it has not returned. It panics in no other case.
C27_EmptyListPanicsFirst ==
    /\ NoTileInRange <=> filter_points(config) = <<>>
    /\ (NoTileInRange /\ mpc # "start") =>
          /\ mpc = "panicked"
          /\ LiveSenders = 0
          /\ spawned = 0
          /\ \A w \in Workers : wpc[w] = "unborn"
          /\ \A k \in DOMAIN requests : requests[k] = <<>>
          /\ channel = <<>> /\ sent = <<>> /\ laz_readers = <<>>
    /\ mpc = "panicked" => NoTileInRange

\* get_laz_data has panicked on a configuration that names an area, every
\* coordinate of which is out of range.
C27_Witness ==
    /\ mpc = "panicked"
    /\ config.core_points # <<>>
    /\ points = <<>>
    /\ cpus = 2

-----------------------------------------------------------------------------
(* computer.rs: compute_textures_parallel, the compute phase.              *)

\* The (min z, max z) of a tile's header bounds: a flat tile and a tile with
\* relief.
ZBounds == { <<1, 1>>, <<0, 2>> }

\* The data vectors the compute phase is run on: up to MaxData tiles with
\* distinct offsets, the origin's among them, some negative.
DataVectors ==
    UNION { [1..n -> ZBounds] : n \in 0..MaxData }

LazDataOf(zs) ==
    [k \in 1..Len(zs) |-> [offset_from_center |-> <<k - 2, 2 - k>>,
                           bounds_min |-> zs[k][1],
                           bounds_max |-> zs[k][2]]]

RECURSIVE HeightBoundsFrom(_, _, _)
\* The loop of get_height_bounds from sector k on.
HeightBoundsFrom(sectors, k, acc) ==
    IF k > Len(sectors) THEN acc
    ELSE LET min_height == IF acc[1] > sectors[k].bounds_min THEN sectors[k].bounds_min ELSE acc[1]
             max_height == IF acc[2] < sectors[k].bounds_max THEN sectors[k].bounds_max ELSE acc[2]
         IN  HeightBoundsFrom(sectors, k + 1, <<min_height, max_height>>)

\* get_height_bounds: always Ok((min_height, max_height)).
get_height_bounds(sectors) == HeightBoundsFrom(sectors, 1, <<F64_MAX, -F64_MAX>>)

\* The chunk size rounded down, at least one.
work_amount_Floor == IF Len(data) \div cpus = 0 THEN 1 ELSE Len(data) \div cpus

\* data.len() / cpus + 1
work_amount == (Len(data) \div cpus) + 1

\* The number of slices data.chunks(work_amount) yields.
NumChunks == (Len(data) + work_amount - 1) \div work_amount

Threads == 0..(NumChunks - 1)

\* The indices (1-based) of the k-th slice of data.chunks(work_amount).
Chunk(k) ==
    {i \in 1..Len(data) : k * work_amount < i /\ i <= (k + 1) * work_amount}

DigitChars == <<"0", "1", "2", "3", "4", "5", "6", "7", "8", "9">>

RECURSIVE to_string(_)
\* The decimal digits of a non-negative integer.
to_string(n) ==
    IF n < 10 THEN <<DigitChars[n + 1]>>
    ELSE to_string(n \div 10) \o <<DigitChars[(n % 10) + 1]>>

\* The absolute value without the prefix that marks a negative offset.
get_coordinate_name_NoPrefix(value) ==
    IF value < 0 THEN to_string(-value) ELSE to_string(value)

\* get_coordinate_name: "n" and the absolute value for a negative offset.
get_coordinate_name(value) ==
    IF value < 0 THEN <<"n">> \o to_string(-value) ELSE to_string(value)

\* The path create_texture writes, below the destination folder.
file_path(sector) ==
    <<"img_">> \o get_coordinate_name(sector.offset_from_center[1]) \o <<"_">>
        \o get_coordinate_name(sector.offset_from_center[2]) \o <<".exr">>

FetchIdle ==
    /\ config = None
    /\ points = <<>>
    /\ coordinate_origin = None
    /\ shared_blocks = <<>>
    /\ mpc = "idle"
    /\ spawned = 0
    /\ wpc = <<>>
    /\ access_index = <<>>
    /\ block_pos = <<>>
    /\ channel = <<>>
    /\ laz_readers = <<>>
    /\ requests = <<>>
    /\ sent = <<>>

ComputeInit ==
    /\ cpus \in 1..MaxCpus
    /\ \E zs \in DataVectors : data = LazDataOf(zs)
    /\ cpc = "start"
    /\ heights = None
    /\ tspawned = 0
    /\ tpc = [k \in Threads |-> "unborn"]
    /\ tpos = [k \in Threads |-> 0]
    /\ joined = 0
    /\ textures = [i \in 1..Len(data) |-> "none"]
    /\ files = {}
    /\ config_json = 0
    /\ synth = [i \in 1..Len(data) |-> None]
    /\ bounds_calls = 0

\* let (min_height, max_height) = get_height_bounds(&data)?; the work amount
\* and the summary are printed.
HeightBounds ==
    /\ cpc = "start"
    /\ heights' = get_height_bounds(data)
    /\ bounds_calls' = bounds_calls + 1
    /\ cpc' = "spawn"
    /\ UNCHANGED <<data, tspawned, tpc, tpos, joined, textures, files, config_json, synth>>
    /\ UNCHANGED <<fetchVars, auxVars>>

\* One turn of `for (_id, chunk) in data.chunks(work_amount).enumerate()`: a
\* scoped thread is spawned for the chunk and its handle is kept.
SpawnChunk ==
    /\ cpc = "spawn"
    /\ tspawned < NumChunks
    /\ tpc' = [tpc EXCEPT ![tspawned] = "run"]
    /\ tspawned' = tspawned + 1
    /\ UNCHANGED <<data, cpc, heights, tpos, joined, textures, files, config_json, synth, bounds_calls>>
    /\ UNCHANGED <<fetchVars, auxVars>>

\* The spawn loop is over; the join loop starts.
StartJoin ==
    /\ cpc = "spawn"
    /\ tspawned = NumChunks
    /\ cpc' = "join"
    /\ UNCHANGED <<data, heights, tspawned, tpc, tpos, joined, textures, files, config_json, synth, bounds_calls>>
    /\ UNCHANGED <<fetchVars, auxVars>>

\* The tile (1-based index into data) thread k is at.
CurrentTile(k) == k * work_amount + tpos[k] + 1

\* Every tile normalized with its own header bounds instead of the global ones.
CreateTextureCall_OwnBounds(k) ==
    [thread |-> k, min_height |-> data[CurrentTile(k)].bounds_min,
     max_height |-> data[CurrentTile(k)].bounds_max]

\* create_texture(config, data, min_height, max_height) as thread k calls it.
CreateTextureCall(k) ==
    [thread |-> k, min_height |-> heights[1], max_height |-> heights[2]]

\* create_texture returns Ok(()): the image file of the tile is written.
CreateTextureOk(k) ==
    /\ tpc[k] = "run"
    /\ CurrentTile(k) \in Chunk(k)
    /\ synth' = [synth EXCEPT ![CurrentTile(k)] = CreateTextureCall(k)]
    /\ textures' = [textures EXCEPT ![CurrentTile(k)] = "written"]
    /\ files' = files \cup {file_path(data[CurrentTile(k)])}
    /\ tpos' = [tpos EXCEPT ![k] = @ + 1]
    /\ UNCHANGED <<data, cpc, heights, tspawned, tpc, joined, config_json, bounds_calls>>
    /\ UNCHANGED <<fetchVars, auxVars>>

\* create_texture returns Err (blur_image or the write of the image): the `?`
\* returns it from the closure of the thread, which ends.
CreateTextureErr(k) ==
    /\ tpc[k] = "run"
    /\ CurrentTile(k) \in Chunk(k)
    /\ synth' = [synth EXCEPT ![CurrentTile(k)] = CreateTextureCall(k)]
    /\ textures' = [textures EXCEPT ![CurrentTile(k)] = "err"]
    /\ tpc' = [tpc EXCEPT ![k] = "err"]
    /\ UNCHANGED <<data, cpc, heights, tspawned, tpos, joined, files, config_json, bounds_calls>>
    /\ UNCHANGED <<fetchVars, auxVars>>

\* create_texture panics (NonZero::new(0).unwrap() for a sample size of 0, an
\* index out of range): the thread unwinds.
CreateTexturePanics(k) ==
    /\ tpc[k] = "run"
    /\ CurrentTile(k) \in Chunk(k)
    /\ synth' = [synth EXCEPT ![CurrentTile(k)] = CreateTextureCall(k)]
    /\ textures' = [textures EXCEPT ![CurrentTile(k)] = "panicked"]
    /\ tpc' = [tpc EXCEPT ![k] = "panicked"]
    /\ UNCHANGED <<data, cpc, heights, tspawned, tpos, joined, files, config_json, bounds_calls>>
    /\ UNCHANGED <<fetchVars, auxVars>>

\* The for loop over the chunk is over: the closure returns Ok(()).
ChunkDone(k) ==
    /\ tpc[k] = "run"
    /\ CurrentTile(k) \notin Chunk(k)
    /\ tpc' = [tpc EXCEPT ![k] = "ok"]
    /\ UNCHANGED <<data, cpc, heights, tspawned, tpos, joined, textures, files, config_json, synth, bounds_calls>>
    /\ UNCHANGED <<fetchVars, auxVars>>

\* result.join().unwrap(): waits for the thread; a panic of the thread makes
\* the unwrap panic; the Result the closure returned is dropped.
Join ==
    /\ cpc = "join"
    /\ joined < NumChunks
    /\ tpc[joined] \in {"ok", "err", "panicked"}
    /\ IF tpc[joined] = "panicked"
       THEN cpc' = "unwinding" /\ UNCHANGED joined
       ELSE joined' = joined + 1 /\ UNCHANGED cpc
    /\ UNCHANGED <<data, heights, tspawned, tpc, tpos, textures, files, config_json, synth, bounds_calls>>
    /\ UNCHANGED <<fetchVars, auxVars>>

\* Every handle is joined: the closure of the scope returns Ok(()).
ScopeReturns ==
    /\ cpc = "join"
    /\ joined = NumChunks
    /\ cpc' = "meta"
    /\ UNCHANGED <<data, heights, tspawned, tpc, tpos, joined, textures, files, config_json, synth, bounds_calls>>
    /\ UNCHANGED <<fetchVars, auxVars>>

\* thread::scope waits for the threads still running, then the panic of the
\* unwrap leaves compute_textures_parallel.
ScopePanics ==
    /\ cpc = "unwinding"
    /\ \A k \in Threads : tpc[k] \in {"ok", "err", "panicked"}
    /\ cpc' = "panicked"
    /\ UNCHANGED <<data, heights, tspawned, tpc, tpos, joined, textures, files, config_json, synth, bounds_calls>>
    /\ UNCHANGED <<fetchVars, auxVars>>

\* config.json is written and compute_textures_parallel returns Ok(()).
WriteConfig ==
    /\ cpc = "meta"
    /\ config_json' = config_json + 1
    /\ cpc' = "returned_ok"
    /\ UNCHANGED <<data, heights, tspawned, tpc, tpos, joined, textures, files, synth, bounds_calls>>
    /\ UNCHANGED <<fetchVars, auxVars>>

\* fs::write fails: its error is returned.
WriteConfigFails ==
    /\ cpc = "meta"
    /\ cpc' = "returned_err"
    /\ UNCHANGED <<data, heights, tspawned, tpc, tpos, joined, textures, files, config_json, synth, bounds_calls>>
    /\ UNCHANGED <<fetchVars, auxVars>>

InitCompute == FetchIdle /\ ComputeInit /\ RegionIdle /\ NameIdle /\ TextureIdle

NextCompute ==
    \/ HeightBounds
    \/ SpawnChunk
    \/ StartJoin
    \/ \E k \in Threads : CreateTextureOk(k)
    \/ \E k \in Threads : CreateTextureErr(k)
    \/ \E k \in Threads : CreateTexturePanics(k)
    \/ \E k \in Threads : ChunkDone(k)
    \/ Join
    \/ ScopeReturns
    \/ ScopePanics
    \/ WriteConfig
    \/ WriteConfigFails

SpecCompute == InitCompute /\ [][NextCompute]_vars

-----------------------------------------------------------------------------
(* The properties of the compute phase.                                    *)

Returned == cpc \in {"returned_ok", "returned_err"}

\* The global bounds are degenerate: no tile at all, or max_height = min_height.
Degenerate == data = <<>> \/ get_height_bounds(data)[1] = get_height_bounds(data)[2]

\* C7: with degenerate global bounds compute_textures_parallel synthesizes
\* nothing, writes neither an image nor config.json, and ends with an error.
C7_DegenerateBoundsFatal ==
    Degenerate =>
        /\ \A i \in 1..Len(data) : textures[i] = "none"
        /\ files = {}
        /\ config_json = 0
        /\ cpc \notin {"meta", "returned_ok"}

\* C8: when compute_textures_parallel returns, every tile whose own
\* create_texture did not fail was synthesized and written.
C8_FailureAbortsOnlyThatTile ==
    Returned =>
        \A i \in 1..Len(data) :
            /\ textures[i] \in {"written", "err"}
            /\ textures[i] = "written" => file_path(data[i]) \in files

\* C9: when create_texture returned an error for some tile,
\* compute_textures_parallel does not return Ok(()).
C9_TileErrorReported ==
    (\E i \in 1..Len(data) : textures[i] = "err") => cpc # "returned_ok"

\* C10: neither phase returns normally after one of its threads panicked.
C10_WorkerPanicIsFatal ==
    /\ mpc = "returned" => \A w \in DOMAIN wpc : wpc[w] # "panicked"
    /\ Returned => \A k \in DOMAIN tpc : tpc[k] # "panicked"

\* C21: config.json is written at most once, and when it is written every
\* thread has ended and was joined and every tile of the compute phase has
\* been through create_texture, to a written image or to its error.
C21_MetadataOnceAfterAllTiles ==
    /\ config_json <= 1
    /\ cpc = "returned_ok" <=> config_json = 1
    /\ config_json = 1 =>
          /\ joined = NumChunks
          /\ \A k \in Threads : tpc[k] \in {"ok", "err"}
          /\ \A i \in 1..Len(data) : textures[i] \in {"written", "err"}

\* The threads that were spawned.
SpawnedThreads == {k \in Threads : tpc[k] # "unborn"}

\* C20: the chunks are non-empty runs of consecutive tiles, every tile lies
\* in exactly one of them, there are at most cpus of them and so at most cpus
\* threads, one per chunk in order, and a tile is only ever synthesized by
\* the thread of its chunk.
C20_ChunksPartitionTiles ==
    cpc # "idle" =>
        /\ \A i \in 1..Len(data) : Cardinality({k \in Threads : i \in Chunk(k)}) = 1
        /\ \A k \in Threads :
              /\ Chunk(k) # {}
              /\ \A i, j \in Chunk(k) : \A m \in i..j : m \in Chunk(k)
              /\ \A k2 \in Threads : k < k2 => \A i \in Chunk(k) : \A j \in Chunk(k2) : i < j
        /\ NumChunks <= cpus
        /\ tspawned <= cpus
        /\ SpawnedThreads = 0..(tspawned - 1)
        /\ \A i \in 1..Len(synth) : synth[i] # None => i \in Chunk(synth[i].thread)

\* Three tiles on two cpus: the chunks {1, 2} and {3}, each synthesized by
\* its own thread.
C20_Witness ==
    /\ Returned
    /\ cpus = 2
    /\ Len(data) = 3
    /\ tspawned = 2
    /\ synth[1] # None /\ synth[1].thread = 0
    /\ synth[2] # None /\ synth[2].thread = 0
    /\ synth[3] # None /\ synth[3].thread = 1

-----------------------------------------------------------------------------
(* The two phases in sequence: the result of get_laz_data is handed to      *)
(* compute_textures_parallel.                                              *)

\* laz_reader.header().bounds(): the (min z, max z) of the file behind a URL.
\* The same URL always serves the same file.
HeaderBounds(payload) ==
    IF (payload.block + payload.tile[1] + payload.tile[2]) % 2 = 0 THEN <<0, 2>> ELSE <<1, 1>>

\* The caller: compute_textures_parallel(&config, cpus, get_laz_data(cpus, &config)).
HandOff ==
    /\ mpc = "returned"
    /\ cpc = "idle"
    /\ LET d == [k \in 1..Len(laz_readers) |->
                    [offset_from_center |-> laz_readers[k].offset_from_center,
                     bounds_min |-> HeaderBounds(laz_readers[k].payload)[1],
                     bounds_max |-> HeaderBounds(laz_readers[k].payload)[2]]]
           wa == (Len(d) \div cpus) + 1
           n == (Len(d) + wa - 1) \div wa
       IN  /\ data' = d
           /\ tpc' = [k \in 0..(n - 1) |-> "unborn"]
           /\ tpos' = [k \in 0..(n - 1) |-> 0]
           /\ textures' = [i \in 1..Len(d) |-> "none"]
           /\ synth' = [i \in 1..Len(d) |-> None]
    /\ cpc' = "start"
    /\ UNCHANGED <<heights, tspawned, joined, files, config_json, bounds_calls>>
    /\ UNCHANGED <<fetchVars, auxVars>>

NextPipeline ==
    \/ Next
    \/ HandOff
    \/ NextCompute

SpecPipeline == Init /\ [][NextPipeline]_vars

\* The smallest and the largest of a non-empty finite set of integers.
MinOf(S) == CHOOSE x \in S : \A y \in S : x <= y

MaxOf(S) == CHOOSE x \in S : \A y \in S : y <= x

\* The bounds over every tile that was assembled (every message sent).
BoundsOfAssembled ==
    IF sent = <<>> THEN <<F64_MAX, -F64_MAX>>
    ELSE <<MinOf({HeaderBounds(sent[k].payload)[1] : k \in 1..Len(sent)}),
           MaxOf({HeaderBounds(sent[k].payload)[2] : k \in 1..Len(sent)})>>

\* C11: get_height_bounds is called at most once, and only when the fetch
\* phase is over (get_laz_data returned, every worker ended, the channel
\* empty, every message sent is a tile of the data); once called its result is
\* the bounds over all assembled tiles; no create_texture call precedes it, and
\* every create_texture call gets exactly that pair.
C11_BoundsOnceAfterDrain ==
    /\ bounds_calls <= 1
    /\ cpc # "idle" =>
          /\ mpc = "returned"
          /\ channel = <<>>
          /\ \A w \in Workers : wpc[w] \in {"done", "panicked"}
          /\ Len(data) = Len(sent)
    /\ bounds_calls = 1 <=> cpc \notin {"idle", "start"}
    /\ bounds_calls = 1 => heights = BoundsOfAssembled
    /\ \A i \in DOMAIN synth :
          synth[i] # None =>
              /\ bounds_calls = 1
              /\ <<synth[i].min_height, synth[i].max_height>> = BoundsOfAssembled

\* Two workers assembled a flat tile and a tile with relief; both were
\* synthesized with the global pair (0, 2), which is not the flat tile's own.
C11_Witness ==
    /\ cpc = "returned_ok"
    /\ cpus = 2
    /\ Len(data) >= 2
    /\ \E i, j \in DOMAIN synth :
          /\ data[i].bounds_min = 1 /\ data[i].bounds_max = 1
          /\ data[j].bounds_min = 0 /\ data[j].bounds_max = 2
          /\ synth[i] # None /\ synth[j] # None
          /\ <<synth[i].min_height, synth[i].max_height>> = <<0, 2>>


\* The tiles whose image file create_texture has written.
Written == {i \in 1..Len(textures) : textures[i] = "written"}

\* C18: no two entries of the result of the fetch phase have the same offset,
\* so no two tiles of the compute phase have the same file path, and every
\* file written is the file of one tile only.
C18_FilesNeverCollide ==
    /\ \A i, j \in 1..Len(laz_readers) :
          laz_readers[i].offset_from_center = laz_readers[j].offset_from_center => i = j
    /\ cpc # "idle" =>
          /\ \A i, j \in 1..Len(data) :
                (data[i].offset_from_center = data[j].offset_from_center
                    \/ file_path(data[i]) = file_path(data[j])) => i = j
          /\ Cardinality(files) = Cardinality(Written)
          /\ files = {file_path(data[i]) : i \in Written}

\* Three areas, one of them listed twice: the tiles (1,1) and (0,0), the
\* second at offset (-1,-1), both written.
C18_Witness ==
    /\ Returned
    /\ Cardinality(files) = 2
    /\ \E i, j \in Written :
          /\ data[i].offset_from_center = <<0, 0>>
          /\ data[j].offset_from_center = <<-1, -1>>
    /\ Len(config.core_points) = 3

-----------------------------------------------------------------------------
(* requester.rs filter_points over core.rs, one next() at a time: the lazy  *)
(* chain flat_map, filter, unique, collect pulls one coordinate per step.  *)

\* Small areas, cut and uncut by the range limits, repeated and overlapping;
\* radii 127, 128 and 255 placed so that few of their coordinates are in
\* range. Every square lies inside the i16 range.
RegionLists ==
    CorePointLists \cup
    { <<CorePoint(1, 1, 1), CorePoint(2, 2, 1)>>,
      <<CorePoint(3, 4, 2)>>,
      <<CorePoint(-126, -126, 127)>>,
      <<CorePoint(-126, -126, 128)>>,
      <<CorePoint(-253, -253, 255)>> }

Areas == 1..Len(config.core_points)

InitRegion ==
    /\ config \in [core_points : RegionLists, possible_blocks : {<<11>>}]
    /\ cpus = 1
    /\ points = <<>>
    /\ coordinate_origin = None
    /\ shared_blocks = <<>>
    /\ mpc = "idle"
    /\ spawned = 0
    /\ wpc = <<>>
    /\ access_index = <<>>
    /\ block_pos = <<>>
    /\ channel = <<>>
    /\ laz_readers = <<>>
    /\ requests = <<>>
    /\ sent = <<>>
    /\ ComputeIdle
    /\ RegionIdle
    /\ NameIdle
    /\ TextureIdle

\* flat_map moves to area a: its iterator is created, or the chain is at its
\* end and collect returns.
EnterArea(a) ==
    /\ fp_area' = a
    /\ IF a \in Areas
       THEN /\ fp_iter' = get_all_points_in_area(config.core_points[a])
            /\ fp_pc' = "run"
       ELSE /\ fp_iter' = None
            /\ fp_pc' = "done"

\* The call of filter_points and the first pull of flat_map.
FilterPointsCall ==
    /\ fp_pc = "idle"
    /\ EnterArea(1)
    /\ fp_out' = <<>>
    /\ fp_count' = [a \in Areas |-> 0]
    /\ fp_last' = [a \in Areas |-> None]
    /\ UNCHANGED <<fetchVars, computeVars, nameVars, textureVars>>

\* next() returns Some(point): the point passes the range filter and unique()
\* or is dropped.
NextSome ==
    /\ fp_pc = "run"
    /\ LET n == CorePointIterator_next(fp_iter)
       IN  /\ n.some
           /\ fp_iter' = n.iter
           /\ fp_count' = [fp_count EXCEPT ![fp_area] = @ + 1]
           /\ fp_last' = [fp_last EXCEPT ![fp_area] = n.item]
           /\ fp_out' = IF InRange(n.item) /\ ~(\E k \in 1..Len(fp_out) : fp_out[k] = n.item)
                        THEN Append(fp_out, n.item)
                        ELSE fp_out
    /\ UNCHANGED <<fp_pc, fp_area>>
    /\ UNCHANGED <<fetchVars, computeVars, nameVars, textureVars>>

\* next() returns None: flat_map moves to the next area.
NextNone ==
    /\ fp_pc = "run"
    /\ ~CorePointIterator_next(fp_iter).some
    /\ EnterArea(fp_area + 1)
    /\ UNCHANGED <<fp_out, fp_count, fp_last>>
    /\ UNCHANGED <<fetchVars, computeVars, nameVars, textureVars>>

NextRegion ==
    \/ FilterPointsCall
    \/ NextSome
    \/ NextNone

SpecRegion == InitRegion /\ [][NextRegion]_vars


-----------------------------------------------------------------------------
(* The properties of the region model.                                     *)

Radius(a) == config.core_points[a].radius

Center(a) == config.core_points[a].center

\* The side of the square the iterator of area a walks: 2r+1, at most 255.
SaturatedSide(a) == IF 2 * Radius(a) + 1 > U8_MAX THEN U8_MAX ELSE 2 * Radius(a) + 1

\* The areas whose iterator has returned None.
Exhausted(a) == a \in Areas /\ fp_pc # "idle" /\ (a < fp_area \/ fp_pc = "done")

\* The items the running iterator has handed out, read off its two indices.
Position(it) == it.current_position_index[2] * it.side_dimension + it.current_position_index[1]

\* C15: the side of an area is 2r+1 saturated at 255; the u8 column and row
\* indices never pass 255, the coming increment included, so they account
\* for every item handed out; the iterator hands out at most side * side items
\* and then returns None.
C15_SideSaturatesCountersFit ==
    /\ fp_pc = "run" =>
          /\ fp_iter.side_dimension = SaturatedSide(fp_area)
          /\ fp_iter.side_dimension <= U8_MAX
          /\ fp_iter.current_position_index[1] < fp_iter.side_dimension
          /\ fp_iter.current_position_index[2] <= fp_iter.side_dimension
          /\ fp_iter.current_position_index[1] + 1 <= U8_MAX
          /\ fp_iter.current_position_index[2] < fp_iter.side_dimension
                => fp_iter.current_position_index[2] + 1 <= U8_MAX
          /\ fp_count[fp_area] = Position(fp_iter)
          /\ fp_count[fp_area] <= SaturatedSide(fp_area) * SaturatedSide(fp_area)
          /\ fp_count[fp_area] = SaturatedSide(fp_area) * SaturatedSide(fp_area)
                => ~CorePointIterator_next(fp_iter).some
    /\ \A a \in Areas : Exhausted(a) => fp_count[a] = SaturatedSide(a) * SaturatedSide(a)

C15_Witness ==
    /\ fp_pc = "done"
    /\ 1 \in Areas
    /\ Radius(1) = U8_MAX
    /\ fp_count[1] = U8_MAX * U8_MAX


\* The square |dx| <= r, |dy| <= r around the centre of area a.
InArea(a, p) ==
    /\ p[1] >= Center(a)[1] - Radius(a)
    /\ p[1] <= Center(a)[1] + Radius(a)
    /\ p[2] >= Center(a)[2] - Radius(a)
    /\ p[2] <= Center(a)[2] + Radius(a)

Min2(m, n) == IF m <= n THEN m ELSE n

Max2(m, n) == IF m >= n THEN m ELSE n

\* The coordinates of area a that lie in [MIN_POINT_DIM, MAX_POINT_DIM).
InRangeOfArea(a) ==
    (Max2(MIN_POINT_DIM, Center(a)[1] - Radius(a))..Min2(MAX_POINT_DIM - 1, Center(a)[1] + Radius(a)))
    \X (Max2(MIN_POINT_DIM, Center(a)[2] - Radius(a))..Min2(MAX_POINT_DIM - 1, Center(a)[2] + Radius(a)))

\* p comes before q in row-major order, x varying fastest.
RowMajorBefore(p, q) == p[2] < q[2] \/ (p[2] = q[2] /\ p[1] < q[1])

\* C14: an exhausted iterator has yielded exactly (2r+1)^2 coordinates, and
\* each coordinate it yields comes after the one before it in row-major
\* order, so no coordinate is yielded twice.
C14_YieldsFullSquare ==
    /\ \A a \in Areas : Exhausted(a) => fp_count[a] = (2 * Radius(a) + 1) * (2 * Radius(a) + 1)
    /\ (fp_pc = "run" /\ fp_count[fp_area] > 0 /\ CorePointIterator_next(fp_iter).some)
          => RowMajorBefore(fp_last[fp_area], CorePointIterator_next(fp_iter).item)

\* C12: the list filter_points returns holds exactly the coordinates that lie
\* in at least one area and in the valid range, and holds none of them twice,
\* at no point of its construction.
C12_ExactUnionOnce ==
    /\ fp_pc \in {"run", "done"} =>
          \A i, j \in 1..Len(fp_out) : fp_out[i] = fp_out[j] => i = j
    /\ fp_pc = "done" =>
          Range(fp_out) = UNION {InRangeOfArea(a) : a \in Areas}

\* The first area, in configuration order, that holds p.
FirstArea(p) == CHOOSE a \in Areas : InArea(a, p) /\ \A b \in 1..(a - 1) : ~InArea(b, p)

\* C16: the first coordinate of an area is (cx - r, cy - r), the last is
\* (cx + r, cy + r), each next one is one step in x or the start of the next
\* row; the tile list is in the order of first occurrence, areas in
\* configuration order.
C16_RowMajorFirstOccurrence ==
    /\ \A a \in Areas :
          /\ (fp_pc # "idle" /\ fp_count[a] = 1)
                => fp_last[a] = <<Center(a)[1] - Radius(a), Center(a)[2] - Radius(a)>>
          /\ Exhausted(a)
                => fp_last[a] = <<Center(a)[1] + Radius(a), Center(a)[2] + Radius(a)>>
    /\ (fp_pc = "run" /\ fp_count[fp_area] > 0 /\ CorePointIterator_next(fp_iter).some)
          => LET last == fp_last[fp_area]
                 item == CorePointIterator_next(fp_iter).item
             IN  IF last[1] = Center(fp_area)[1] + Radius(fp_area)
                 THEN item = <<Center(fp_area)[1] - Radius(fp_area), last[2] + 1>>
                 ELSE item = <<last[1] + 1, last[2]>>
    /\ fp_pc \in {"run", "done"} =>
          \A i, j \in 1..Len(fp_out) :
              i < j => \/ FirstArea(fp_out[i]) < FirstArea(fp_out[j])
                       \/ /\ FirstArea(fp_out[i]) = FirstArea(fp_out[j])
                          /\ RowMajorBefore(fp_out[i], fp_out[j])


-----------------------------------------------------------------------------
(* computer.rs: the name of the image file of a tile, and its reading back *)
(* by the naming convention.                                               *)

MaxOff == 12

\* The components of an offset: the small ones, and the largest that two
\* coordinates of [MIN_POINT_DIM, MAX_POINT_DIM) can be apart.
OffsetComponents ==
    (-MaxOff..MaxOff) \cup {MIN_POINT_DIM - MAX_POINT_DIM + 1, -100, 100, MAX_POINT_DIM - 1 - MIN_POINT_DIM}

DigitValue(c) == (CHOOSE d \in 1..Len(DigitChars) : DigitChars[d] = c) - 1

RECURSIVE from_digits(_)
\* The number a string of decimal digits stands for.
from_digits(s) ==
    IF s = <<>> THEN 0
    ELSE from_digits(SubSeq(s, 1, Len(s) - 1)) * 10 + DigitValue(s[Len(s)])

\* One component of a name: "n" marks a negative number.
parse_coordinate(s) ==
    IF s # <<>> /\ s[1] = "n" THEN -from_digits(Tail(s)) ELSE from_digits(s)

\* img_<X>_<Y>.exr read back: the two components between the prefix and the
\* extension, on either side of the separator.
parse_file_name(name) ==
    LET inner == SubSeq(name, 2, Len(name) - 1)
        sep == CHOOSE k \in 1..Len(inner) : inner[k] = "_"
    IN  <<parse_coordinate(SubSeq(inner, 1, sep - 1)),
          parse_coordinate(SubSeq(inner, sep + 1, Len(inner)))>>

InitName ==
    /\ FetchIdle
    /\ cpus = 1
    /\ ComputeIdle
    /\ RegionIdle
    /\ TextureIdle
    /\ nm_offset \in OffsetComponents \X OffsetComponents
    /\ nm_name = None
    /\ nm_parsed = None

\* create_texture builds the file name of the tile from its offset.
BuildName ==
    /\ nm_name = None
    /\ nm_name' = file_path([offset_from_center |-> nm_offset])
    /\ UNCHANGED <<nm_offset, nm_parsed>>
    /\ UNCHANGED <<fetchVars, computeVars, regionVars, textureVars>>

\* The name is read back.
ParseName ==
    /\ nm_name # None
    /\ nm_parsed = None
    /\ nm_parsed' = parse_file_name(nm_name)
    /\ UNCHANGED <<nm_offset, nm_name>>
    /\ UNCHANGED <<fetchVars, computeVars, regionVars, textureVars>>

NextName ==
    \/ BuildName
    \/ ParseName

SpecName == InitName /\ [][NextName]_vars

\* C19: the name built from an offset reads back as that offset, and no
\* other offset has the same name.
C19_NameRoundTrips ==
    /\ nm_parsed # None => nm_parsed = nm_offset
    /\ nm_name # None =>
          \A o \in OffsetComponents \X OffsetComponents :
              file_path([offset_from_center |-> o]) = nm_name => o = nm_offset

C19_Witness ==
    /\ nm_offset = <<-3, 5>>
    /\ nm_name = <<"img_", "n", "3", "_", "5", ".exr">>
    /\ nm_parsed = <<-3, 5>>


-----------------------------------------------------------------------------
(* computer.rs: create_texture up to the blur, one pixel of the buffer a   *)
(* step. The f64 and f32 values are kept as exact fractions <<n, d>>, d > 0. *)

MaxResolution == 3

MaxSample == 3

CHANNEL_NUM == 3

RatEq(a, b) == a[1] * b[2] = b[1] * a[2]

LasPoint(x, y, z) == [x |-> x, y |-> y, z |-> z]

\* The tiles create_texture is run on: the four corners of a 10 x 10 tile,
\* a tile of three points, a tile of a single point (bounds of no extent).
\* The global bounds are those of the tile with the largest relief.
TextureTiles ==
    { [points |-> <<LasPoint(0, 0, 0), LasPoint(10, 0, 10), LasPoint(0, 10, 10), LasPoint(10, 10, 20)>>,
       bounds_min |-> <<0, 0>>, bounds_max |-> <<10, 10>>],
      [points |-> <<LasPoint(0, 0, 4), LasPoint(6, 0, 8), LasPoint(0, 6, 16)>>,
       bounds_min |-> <<0, 0>>, bounds_max |-> <<6, 6>>],
      [points |-> <<LasPoint(3, 4, 5)>>,
       bounds_min |-> <<3, 4>>, bounds_max |-> <<3, 4>>] }

TextureInputs ==
    [tile : TextureTiles, resolution : 1..MaxResolution, sample_size : 0..MaxSample,
     min_height : {0}, max_height : {20}]

dim_x == tx_input.resolution

dim_y == tx_input.resolution

dim_x_adapted == dim_x * CHANNEL_NUM

\* point_data: the z of a point normalized with the global bounds.
point_data_z(point) ==
    <<point.z - tx_input.min_height, tx_input.max_height - tx_input.min_height>>

\* let (ind_x, ind_y) = (ind_x, dim_y - ind_y)
flip(ind_y) == dim_y - ind_y

\* (geo_x, geo_y) of the pixel at linear_index.
geo(linear_index) ==
    LET ind_x == linear_index % dim_x_adapted
        ind_y == flip(linear_index \div dim_x_adapted)
        delta_x == tx_input.tile.bounds_max[1] - tx_input.tile.bounds_min[1]
        delta_y == tx_input.tile.bounds_max[2] - tx_input.tile.bounds_min[2]
    IN  [x |-> <<ind_x * delta_x + tx_input.tile.bounds_min[1] * dim_x_adapted, dim_x_adapted>>,
         y |-> <<ind_y * delta_y + tx_input.tile.bounds_min[2] * dim_y, dim_y>>]

\* SquaredEuclidean between a point and a position, over the denominator
\* (g.x[2] * g.y[2])^2 that all points share.
SquaredEuclidean(point, g) ==
    (point.x * g.x[2] - g.x[1]) * (point.x * g.x[2] - g.x[1]) * g.y[2] * g.y[2]
    + (point.y * g.y[2] - g.y[1]) * (point.y * g.y[2] - g.y[1]) * g.x[2] * g.x[2]

\* kdtree.nearest_n: the n items nearest to the position, all of them when
\* the tree holds fewer; which of several equally near items it returns is
\* the library's choice.
nearest_n(g, n) ==
    LET items == 1..Len(tx_input.tile.points)
        m == IF n <= Cardinality(items) THEN n ELSE Cardinality(items)
    IN  {S \in SUBSET items :
            /\ Cardinality(S) = m
            /\ \A a \in S : \A b \in items \ S :
                  SquaredEuclidean(tx_input.tile.points[a], g)
                      <= SquaredEuclidean(tx_input.tile.points[b], g)}

RECURSIVE SumZ(_)
\* height_result += point_data[neighbour.item][2], over the neighbours.
SumZ(S) ==
    IF S = {} THEN 0
    ELSE LET a == CHOOSE a \in S : TRUE
         IN  point_data_z(tx_input.tile.points[a])[1] + SumZ(S \ {a})

\* height_result / neighbours_n as f32
height_result(neighbours) ==
    <<SumZ(neighbours), (tx_input.max_height - tx_input.min_height) * tx_input.sample_size>>

InitTexture ==
    /\ FetchIdle
    /\ cpus = 1
    /\ ComputeIdle
    /\ RegionIdle
    /\ NameIdle
    /\ tx_input \in TextureInputs
    /\ tx_pc = "start"
    /\ tx_index = 0
    /\ tx_buffer = <<>>
    /\ tx_geo = <<>>

\* create_texture up to the loop: NonZero::new(neighbours_n).unwrap() panics
\* for a sample size of 0, else the buffer is allocated, zeroed.
TextureBegin ==
    /\ tx_pc = "start"
    /\ IF tx_input.sample_size = 0
       THEN /\ tx_pc' = "panicked"
            /\ UNCHANGED tx_buffer
       ELSE /\ tx_pc' = "loop"
            /\ tx_buffer' = [i \in 0..(dim_x_adapted * dim_y - 1) |-> <<0, 1>>]
    /\ UNCHANGED <<tx_input, tx_index, tx_geo>>
    /\ UNCHANGED <<fetchVars, computeVars, regionVars, nameVars>>

\* One turn of the loop over the buffer: the pixel's position, its
\* neighbours, their mean, written to the three channels of the pixel.
PixelStep ==
    /\ tx_pc = "loop"
    /\ tx_index < dim_x_adapted * dim_y
    /\ \E neighbours \in nearest_n(geo(tx_index), tx_input.sample_size) :
          tx_buffer' = [i \in DOMAIN tx_buffer |->
                           IF i \in tx_index..(tx_index + 2)
                           THEN height_result(neighbours)
                           ELSE tx_buffer[i]]
    /\ tx_geo' = (tx_index :> geo(tx_index)) @@ tx_geo
    /\ tx_index' = tx_index + CHANNEL_NUM
    /\ UNCHANGED <<tx_input, tx_pc>>
    /\ UNCHANGED <<fetchVars, computeVars, regionVars, nameVars>>

\* The loop is over: the buffer goes to blur_image.
LoopEnd ==
    /\ tx_pc = "loop"
    /\ tx_index >= dim_x_adapted * dim_y
    /\ tx_pc' = "filled"
    /\ UNCHANGED <<tx_input, tx_index, tx_buffer, tx_geo>>
    /\ UNCHANGED <<fetchVars, computeVars, regionVars, nameVars>>

NextTexture ==
    \/ TextureBegin
    \/ PixelStep
    \/ LoopEnd

SpecTexture == InitTexture /\ [][NextTexture]_vars


-----------------------------------------------------------------------------
(* The properties of the pixel loop.                                       *)

\* The pixels the loop has filled, by the linear index of their first channel.
Sampled == DOMAIN tx_geo

Column(idx) == (idx % (CHANNEL_NUM * tx_input.resolution)) \div CHANNEL_NUM

Row(idx) == idx \div (CHANNEL_NUM * tx_input.resolution)

\* S holds k points of the tile, none of them farther from g than a point
\* left out.
KNearest(S, g, k) ==
    /\ S \subseteq 1..Len(tx_input.tile.points)
    /\ Cardinality(S) = k
    /\ \A a \in S : \A b \in (1..Len(tx_input.tile.points)) \ S :
          SquaredEuclidean(tx_input.tile.points[a], g)
              <= SquaredEuclidean(tx_input.tile.points[b], g)

\* C22: the three channels of a filled pixel hold the same height, and that
\* height is the arithmetic mean of the normalized z of k points nearest to
\* the position the pixel was sampled at, k being the sample size.
C22_MeanOfKNearest ==
    \A idx \in Sampled :
        /\ tx_buffer[idx + 1] = tx_buffer[idx]
        /\ tx_buffer[idx + 2] = tx_buffer[idx]
        /\ \E S \in SUBSET (1..Len(tx_input.tile.points)) :
              /\ KNearest(S, tx_geo[idx], tx_input.sample_size)
              /\ RatEq(tx_buffer[idx],
                       <<SumZ(S), (tx_input.max_height - tx_input.min_height) * Cardinality(S)>>)

\* C23: pixel (i, j) is sampled at min + (i / R) * (max - min) in x and, the
\* rows flipped, at min + ((R - 1 - j) / R) * (max - min) in y.
C23_PixelToWorld ==
    \A idx \in Sampled :
        LET R == tx_input.resolution
            min == tx_input.tile.bounds_min
            max == tx_input.tile.bounds_max
        IN  /\ RatEq(tx_geo[idx].x, <<min[1] * R + Column(idx) * (max[1] - min[1]), R>>)
            /\ RatEq(tx_geo[idx].y, <<min[2] * R + (R - 1 - Row(idx)) * (max[2] - min[2]), R>>)

====
